---- MODULE Spec2Model ----
(***************************************************************************)
(* Model of the quiz attempt lifecycle, the mastery tracker and the reward *)
(* engine of the questquiz backend (routes/quiz.js, models/Quiz.js,        *)
(* models/Progress.js, models/GameState.js).                               *)
(*                                                                         *)
(* Under Spec every request handler is one atomic action (requests are     *)
(* serialized).                                                            *)
(* Numbers that the code computes with a division (score, mastery,         *)
(* averageAccuracy) are kept as exact fractions <<num, den>> in lowest     *)
(* terms, so that 1 of 3 is 100/3 and not 33.                              *)
(* Fields that no handler modelled here reads back (answer text and        *)
(* timestamp of an AnswerRecord, Progress.lastAttempt, badge names and     *)
(* icons, GameState.currentLevel) are left out of the state.               *)
(*                                                                         *)
(* Spec is the server: start, submitAnswer and the clock.  SpecCalc runs   *)
(* the pure parts of the handlers (level curve, xp of an attempt, streak,  *)
(* topic classification, question selection, question validation) on       *)
(* inputs the server's small quizzes do not produce; calc holds the last   *)
(* call with its arguments and its result.  SpecRace runs two              *)
(* /submit-answer requests step by step, one step per database call;       *)
(* inflight holds each request's position and the documents it loaded.     *)
(***************************************************************************)
EXTENDS Integers, Sequences, FiniteSets, TLC

VARIABLES quizStore, attempts, progress, gameState, xpGrants, now, calc, inflight

vars == <<quizStore, attempts, progress, gameState, xpGrants, now, calc, inflight>>

----------------------------------------------------------------------------
(* Bounds of the model *)

MaxAttempts == 2

MaxSubmits == 3

MaxNow == 1

(* answers already counted on one topic of a stored ProgressRecord *)
MaxAnswered == 3

(* seconds a completed attempt may have taken *)
MaxSeconds == 61

(* xp a student may have collected *)
MaxXP == 600

(* the latest clock tick of a reward update called on its own *)
MaxTick == 5

(* the longest streak a student may have *)
MaxStreak == 2

(* the last position (from 0) of a question in the generator's output *)
MaxIndex == 4

(* One tick of the clock is half a day. *)
TicksPerDay == 2

----------------------------------------------------------------------------
(* Exact fractions *)

RECURSIVE GCD(_, _)
GCD(a, b) == IF b = 0 THEN a ELSE GCD(b, a % b)

Frac(n, d) == LET g == GCD(n, d) IN <<n \div g, d \div g>>

(* (c / t) * 100 as the code writes it, t > 0 *)
Pct(c, t) == Frac(100 * c, t)

Zero == <<0, 1>>

FracLess(a, b) == a[1] * b[2] < b[1] * a[2]

FracLessInt(a, n) == a[1] < n * a[2]

(* Math.floor(x / k) for a fraction x >= 0 *)
FloorDiv(a, k) == a[1] \div (a[2] * k)

(* Math.round(x) for a fraction x >= 0: floor(x + 1/2) *)
Round(a) == (2 * a[1] + a[2]) \div (2 * a[2])

----------------------------------------------------------------------------
(* The users and the quizzes in the data store *)

Students == {"s1", "s2"}

Users == Students \cup {"i1"}

role(u) == IF u \in Students THEN "student" ELSE "instructor"

enrolledClasses(u) ==
  CASE u = "s1" -> {"c1"}
    [] u = "s2" -> {"c0"}
    [] OTHER -> {}

Question(id, tp, topic, diff, corr) ==
  [questionId |-> id, type |-> tp, topic |-> topic, difficulty |-> diff,
   correctAnswer |-> corr]

(* qzA: three questions over two topics, adaptive.                         *)
(* qzB: one question, fixed order.                                         *)
(* qzE: a quiz whose question generation returned an empty list.           *)
(* qzI: a quiz that is not active.                                         *)
(* qzF: three questions over two topics, fixed order; in no store of the   *)
(*      server runs, used where question selection is called on its own.   *)
(* qzD: three questions of an adaptive generation whose replies for two    *)
(*      levels both numbered their questions from q1; in no store of the   *)
(*      server runs.                                                       *)
Quiz ==
  [qzA |-> [questions |-> << Question("q1", "multiple-choice", "t1", "easy", "B"),
                             Question("q2", "short-answer", "t1", "medium", "B"),
                             Question("q3", "true-false", "t2", "hard", "B") >>,
            topics |-> <<"t1", "t2">>, class |-> "c1", timeLimit |-> 2,
            isActive |-> TRUE, adaptiveMode |-> TRUE],
   qzB |-> [questions |-> << Question("q1", "multiple-choice", "t1", "medium", "B") >>,
            topics |-> <<"t1">>, class |-> "c1", timeLimit |-> 1,
            isActive |-> TRUE, adaptiveMode |-> FALSE],
   qzE |-> [questions |-> << >>,
            topics |-> <<"t1">>, class |-> "c1", timeLimit |-> 1,
            isActive |-> TRUE, adaptiveMode |-> TRUE],
   qzI |-> [questions |-> << Question("q1", "multiple-choice", "t1", "easy", "B") >>,
            topics |-> <<"t1">>, class |-> "c1", timeLimit |-> 1,
            isActive |-> FALSE, adaptiveMode |-> FALSE],
   qzF |-> [questions |-> << Question("q1", "multiple-choice", "t1", "hard", "B"),
                             Question("q2", "true-false", "t2", "easy", "B"),
                             Question("q3", "short-answer", "t1", "medium", "B") >>,
            topics |-> <<"t1", "t2">>, class |-> "c1", timeLimit |-> 2,
            isActive |-> TRUE, adaptiveMode |-> FALSE],
   qzD |-> [questions |-> << Question("q1", "multiple-choice", "t1", "easy", "B"),
                             Question("q1", "multiple-choice", "t2", "medium", "B"),
                             Question("q2", "multiple-choice", "t1", "easy", "B") >>,
            topics |-> <<"t1", "t2">>, class |-> "c1", timeLimit |-> 2,
            isActive |-> TRUE, adaptiveMode |-> TRUE]]

QuizIds == DOMAIN Quiz

(* ids a client may send: the stored quizzes and one that is not stored *)
QuizIdInputs == QuizIds \cup {"qzNone"}

QuestionIdInputs == {"q1", "q2", "q3", "q9"}

AnswerInputs == {"B", "b", "X"}

TimeSpentInputs == {20}

(* quizSchema.pre('save'): totalQuestions is the number of questions *)
totalQuestions(qz) == Len(Quiz[qz].questions)

----------------------------------------------------------------------------
(* Stored documents *)

NoDate == 0 - 1

NoNumber == 0 - 1

NoQuestion == "none"

NoAttempt == 0

(* new Attempt({...}) in /start *)
NewAttempt(user, qz) ==
  [student |-> user, quiz |-> qz, answers |-> << >>,
   totalQuestions |-> totalQuestions(qz), timeSpent |-> 0, correctAnswers |-> 0,
   score |-> Zero, isCompleted |-> FALSE, completedAt |-> NoDate]

(* new Progress({...}) in /start: one zero entry per quiz topic *)
NewProgress(qz) ==
  [attempts |-> << >>, bestScore |-> Zero, totalAttempts |-> 0,
   topicMastery |-> [i \in DOMAIN Quiz[qz].topics |->
                       [topic |-> Quiz[qz].topics[i], mastery |-> Zero,
                        questionsAnswered |-> 0, correctAnswers |-> 0]],
   weakTopics |-> << >>, strongTopics |-> << >>]

(* new GameState({...}) at registration, and the schema defaults *)
NewGameState(t) ==
  [xp |-> 0, level |-> 1, badges |-> << >>,
   streaks |-> [current |-> 0, longest |-> 0, lastActivity |-> t],
   stats |-> [totalQuizzesCompleted |-> 0, totalQuestionsAnswered |-> 0,
              totalCorrectAnswers |-> 0, averageAccuracy |-> Zero,
              totalTimeSpent |-> 0, fastestQuiz |-> NoNumber]]

(* the quiz collections the data store may hold: a three-question quiz,   *)
(* or a one-question quiz next to a quiz without questions; an inactive    *)
(* quiz in both                                                            *)
QuizStores == {{"qzA", "qzI"}, {"qzB", "qzE", "qzI"}}

(* no pure call made *)
NoCalc == [fn |-> "none"]

(* no request between two of its awaits *)
NoRequests == << >>

Init ==
  /\ quizStore \in QuizStores
  /\ attempts = << >>
  /\ progress = << >>
  /\ gameState = [s \in Students |-> NewGameState(0)]
  /\ xpGrants = [s \in Students |-> 0]
  /\ now = 0
  /\ calc = NoCalc
  /\ inflight = NoRequests

----------------------------------------------------------------------------
(* Array helpers *)

(* Array.prototype.filter: the elements of s at the indexes in S, in order *)
Filter(s, S) ==
  LET F[i \in 0..Len(s)] ==
        IF i = 0 THEN << >>
        ELSE IF i \in S THEN Append(F[i - 1], s[i]) ELSE F[i - 1]
  IN F[Len(s)]

(* Array.prototype.findIndex: the first index in S, 0 when there is none *)
FindIndex(S) == IF S = {} THEN 0 ELSE CHOOSE i \in S : \A j \in S : i <= j

Includes(s, x) == \E i \in DOMAIN s : s[i] = x

put(f, k, v) == [x \in (DOMAIN f) \cup {k} |-> IF x = k THEN v ELSE f[x]]

----------------------------------------------------------------------------
(* GameState methods *)

(* the level loop with every level costing 100 xp *)
calculateLevel_FlatCurve(xp) ==
  [level |-> 1 + xp \div 100, xpForCurrentLevel |-> 100 * (xp \div 100),
   xpForNextLevel |-> 100 * (xp \div 100) + 100, progress |-> Pct(xp % 100, 100)]

RECURSIVE levelLoop(_, _, _)
levelLoop(xp, level, xpForNextLevel) ==
  IF xp >= xpForNextLevel
  THEN levelLoop(xp, level + 1, xpForNextLevel + (level + 1) * 50)
  ELSE [level |-> level, xpForCurrentLevel |-> xpForNextLevel - level * 50,
        xpForNextLevel |-> xpForNextLevel,
        progress |-> Pct(xp - (xpForNextLevel - level * 50), level * 50)]

calculateLevel(xp) == levelLoop(xp, 1, 100)

(* addXP that leaves the stored level as it was *)
addXP_KeepsLevel(gs, amount) == [gs EXCEPT !.xp = gs.xp + amount]

addXP(gs, amount) ==
  [gs EXCEPT !.xp = gs.xp + amount,
             !.level = calculateLevel(gs.xp + amount).level]

HasBadge(gs, id) == \E i \in DOMAIN gs.badges : gs.badges[i] = id

(* checkBadges without the lookup of the badges already unlocked *)
checkBadges_NoLookup(gs) ==
  LET first == IF gs.stats.totalQuizzesCompleted = 1 THEN <<"first_quiz">> ELSE << >>
      perfect == IF gs.stats.averageAccuracy = <<100, 1>> THEN <<"perfectionist">> ELSE << >>
      week == IF gs.streaks.current >= 7 THEN <<"week_warrior">> ELSE << >>
  IN [gs EXCEPT !.badges = gs.badges \o first \o perfect \o week]

checkBadges(gs) ==
  LET first == IF gs.stats.totalQuizzesCompleted = 1 /\ ~HasBadge(gs, "first_quiz")
               THEN <<"first_quiz">> ELSE << >>
      perfect == IF gs.stats.averageAccuracy = <<100, 1>> /\ ~HasBadge(gs, "perfectionist")
                 THEN <<"perfectionist">> ELSE << >>
      week == IF gs.streaks.current >= 7 /\ ~HasBadge(gs, "week_warrior")
              THEN <<"week_warrior">> ELSE << >>
  IN [gs EXCEPT !.badges = gs.badges \o first \o perfect \o week]

(* the xp of one completed attempt *)
(* totalXP with the speed bonus granted at the limit too *)
totalXP_SpeedAtLimit(att, qz) ==
  LET baseXP == 50
      accuracyBonus == FloorDiv(att.score, 10) * 10
      speedBonus == IF att.timeSpent <= Quiz[qz].timeLimit * 30 THEN 20 ELSE 0
  IN baseXP + accuracyBonus + speedBonus

totalXP(att, qz) ==
  LET baseXP == 50
      accuracyBonus == FloorDiv(att.score, 10) * 10
      speedBonus == IF att.timeSpent < Quiz[qz].timeLimit * 30 THEN 20 ELSE 0
  IN baseXP + accuracyBonus + speedBonus

updateStats(gs, att) ==
  LET answered == gs.stats.totalQuestionsAnswered + att.totalQuestions
      correct == gs.stats.totalCorrectAnswers + att.correctAnswers
  IN [gs EXCEPT
        !.stats.totalQuizzesCompleted = @ + 1,
        !.stats.totalQuestionsAnswered = answered,
        !.stats.totalCorrectAnswers = correct,
        !.stats.averageAccuracy = Pct(correct, answered),
        !.stats.totalTimeSpent = @ + (att.timeSpent \div 60),
        !.stats.fastestQuiz =
           IF gs.stats.fastestQuiz = NoNumber \/ gs.stats.fastestQuiz = 0
              \/ att.timeSpent < gs.stats.fastestQuiz
           THEN att.timeSpent ELSE @]

updateStreak(gs, t) ==
  LET daysDiff == (t - gs.streaks.lastActivity) \div TicksPerDay
      current == IF daysDiff = 1 THEN gs.streaks.current + 1
                 ELSE IF daysDiff > 1 THEN 1 ELSE gs.streaks.current
  IN [gs EXCEPT !.streaks.current = current,
                !.streaks.longest = IF current > @ THEN current ELSE @,
                !.streaks.lastActivity = t]

(* the GameState that updateGameState saves *)
updateGameState(gs, att, qz, t) ==
  checkBadges(updateStreak(updateStats(addXP(gs, totalXP(att, qz)), att), t))

(* updateGameState step by step.  The steps work on the document that     *)
(* GameState.findOne loaded; gameState.save() is the last statement of the *)
(* try block, and the catch logs the error and returns null.               *)
RewardSteps == <<"findOne", "addXP", "stats", "streak", "checkBadges", "save">>

(* the loaded document after the steps before the given one *)
rewardMemory(gs, att, qz, t, step) ==
  CASE step \in {"findOne", "addXP"} -> gs
    [] step = "stats" -> addXP(gs, totalXP(att, qz))
    [] step = "streak" -> updateStats(addXP(gs, totalXP(att, qz)), att)
    [] step = "checkBadges" -> updateStreak(updateStats(addXP(gs, totalXP(att, qz)), att), t)
    [] OTHER -> updateGameState(gs, att, qz, t)

(* rewardStored with every step writing the document through *)
rewardStored_SavesEachStep(gs, att, qz, t, failAt) ==
  rewardMemory(gs, att, qz, t, failAt)

(* the stored GameState after an update in which the step failAt throws    *)
(* ("none": no step throws)                                                *)
rewardStored(gs, att, qz, t, failAt) ==
  IF failAt = "none" THEN updateGameState(gs, att, qz, t) ELSE gs

(* what updateGameState returns to the handler, which ignores it *)
rewardReturned(failAt) == IF failAt = "none" THEN "result" ELSE "null"

----------------------------------------------------------------------------
(* POST /start/:quizId *)

(* the first question handed out, NoQuestion for a quiz without questions *)
firstQuestion(qz) ==
  LET qs == Quiz[qz].questions
      easy == FindIndex({i \in DOMAIN qs : qs[i].difficulty = "easy"})
  IN IF qs = << >> THEN NoQuestion
     ELSE IF Quiz[qz].adaptiveMode /\ easy # 0 THEN qs[easy].questionId
     ELSE qs[1].questionId

(* StartStatus without the test of quiz.isActive *)
StartStatus_IgnoresActive(user, quizId) ==
  IF role(user) # "student" THEN "AccessDenied"
  ELSE IF quizId \notin quizStore THEN "NotFound"
  ELSE IF Quiz[quizId].class \notin enrolledClasses(user) THEN "AccessDenied"
  ELSE "ok"

(* the status /start answers with, from its early returns *)
StartStatus(user, quizId) ==
  IF role(user) # "student" THEN "AccessDenied"
  ELSE IF quizId \notin quizStore THEN "NotFound"
  ELSE IF Quiz[quizId].class \notin enrolledClasses(user) THEN "AccessDenied"
  ELSE IF ~Quiz[quizId].isActive THEN "Inactive"
  ELSE "ok"

(* A request that is rejected writes nothing: it is a stuttering step.     *)
(* The reply of an accepted request is a function of the state it leaves:  *)
(* the new attempt's id and firstQuestion of its quiz.                     *)
StartQuiz(user, quizId) ==
  LET key == <<user, quizId>>
      pr == IF key \in DOMAIN progress THEN progress[key] ELSE NewProgress(quizId)
      id == Len(attempts) + 1
  IN /\ StartStatus(user, quizId) = "ok"
     /\ Len(attempts) < MaxAttempts
     /\ attempts' = Append(attempts, NewAttempt(user, quizId))
     /\ progress' = put(progress, key,
                        [pr EXCEPT !.attempts = Append(@, id), !.totalAttempts = @ + 1])
     /\ UNCHANGED <<quizStore, gameState, xpGrants, now, calc, inflight>>

----------------------------------------------------------------------------
(* POST /submit-answer *)

(* String.prototype.toLowerCase().trim() on the answers of the model *)
lowerTrim(a) == IF a = "B" THEN "b" ELSE a

isAnswerCorrect(question, answer) ==
  IF question.type \in {"multiple-choice", "true-false"}
  THEN answer = question.correctAnswer
  ELSE IF question.type = "short-answer"
       THEN lowerTrim(answer) = lowerTrim(question.correctAnswer)
       ELSE FALSE

(* recordAnswer with the counter bumped for every answer *)
recordAnswer_CountsEveryAnswer(att, questionId, isCorrect, timeSpent) ==
  [att EXCEPT !.answers = Append(@, [questionId |-> questionId, isCorrect |-> isCorrect]),
              !.timeSpent = @ + timeSpent,
              !.correctAnswers = @ + 1]

(* attempt.answers.push, attempt.timeSpent +=, attempt.correctAnswers += *)
recordAnswer(att, questionId, isCorrect, timeSpent) ==
  [att EXCEPT !.answers = Append(@, [questionId |-> questionId, isCorrect |-> isCorrect]),
              !.timeSpent = @ + timeSpent,
              !.correctAnswers = IF isCorrect THEN @ + 1 ELSE @]

(* updateTopicMastery with the percentage recomputed on correct answers only *)
updateTopicMastery_StaleOnWrong(pr, topic, isCorrect) ==
  LET topicIndex == FindIndex({i \in DOMAIN pr.topicMastery : pr.topicMastery[i].topic = topic})
  IN IF topicIndex = 0 THEN pr
     ELSE LET tm == pr.topicMastery[topicIndex]
              qa == tm.questionsAnswered + 1
              ca == IF isCorrect THEN tm.correctAnswers + 1 ELSE tm.correctAnswers
          IN [pr EXCEPT !.topicMastery[topicIndex] =
                [tm EXCEPT !.questionsAnswered = qa, !.correctAnswers = ca,
                           !.mastery = IF isCorrect THEN Pct(ca, qa) ELSE @]]

(* the topic mastery update on the loaded progress document *)
updateTopicMastery(pr, topic, isCorrect) ==
  LET topicIndex == FindIndex({i \in DOMAIN pr.topicMastery : pr.topicMastery[i].topic = topic})
  IN IF topicIndex = 0 THEN pr
     ELSE LET tm == pr.topicMastery[topicIndex]
              qa == tm.questionsAnswered + 1
              ca == IF isCorrect THEN tm.correctAnswers + 1 ELSE tm.correctAnswers
          IN [pr EXCEPT !.topicMastery[topicIndex] =
                [tm EXCEPT !.questionsAnswered = qa, !.correctAnswers = ca,
                           !.mastery = Pct(ca, qa)]]

(* the attempt has every answer it needs *)
isComplete(att, qz) == Len(att.answers) >= totalQuestions(qz)

(* finalScore rounded to a whole percentage *)
finalScore_Rounded(att, qz) == <<Round(Pct(att.correctAnswers, totalQuestions(qz))), 1>>

finalScore(att, qz) == Pct(att.correctAnswers, totalQuestions(qz))

completeAttempt(att, qz, t) ==
  [att EXCEPT !.score = finalScore(att, qz), !.isCompleted = TRUE, !.completedAt = t]

(* bestScoreOf that keeps the latest score *)
bestScoreOf_Latest(pr, score) == score

bestScoreOf(pr, score) == IF FracLess(pr.bestScore, score) THEN score ELSE pr.bestScore

TopicNames(tms) == [i \in DOMAIN tms |-> tms[i].topic]

(* weakTopicsOf without the test for answered questions *)
weakTopicsOf_CountsUnanswered(topicMastery) ==
  TopicNames(Filter(topicMastery,
                    {i \in DOMAIN topicMastery :
                       FracLessInt(topicMastery[i].mastery, 70)}))

weakTopicsOf(topicMastery) ==
  TopicNames(Filter(topicMastery,
                    {i \in DOMAIN topicMastery :
                       /\ FracLessInt(topicMastery[i].mastery, 70)
                       /\ topicMastery[i].questionsAnswered > 0}))

(* strongTopicsOf with the threshold at 50 *)
strongTopicsOf_Threshold50(topicMastery) ==
  TopicNames(Filter(topicMastery,
                    {i \in DOMAIN topicMastery :
                       /\ ~FracLessInt(topicMastery[i].mastery, 50)
                       /\ topicMastery[i].questionsAnswered > 0}))

strongTopicsOf(topicMastery) ==
  TopicNames(Filter(topicMastery,
                    {i \in DOMAIN topicMastery :
                       /\ ~FracLessInt(topicMastery[i].mastery, 80)
                       /\ topicMastery[i].questionsAnswered > 0}))

finalizeProgress(pr, score) ==
  [pr EXCEPT !.bestScore = bestScoreOf(pr, score),
             !.weakTopics = weakTopicsOf(pr.topicMastery),
             !.strongTopics = strongTopicsOf(pr.topicMastery)]

isAnswered(att, questionId) == \E i \in DOMAIN att.answers : att.answers[i].questionId = questionId

(* the questions getNextQuestion may return (Math.random picks among the   *)
(* unanswered ones), NoQuestion when none is left                          *)
getNextQuestion(qz, att, hasProgress, pr) ==
  LET qs == Quiz[qz].questions
      weakTopicQuestions ==
        Filter(qs, {i \in DOMAIN qs : /\ Includes(pr.weakTopics, qs[i].topic)
                                       /\ ~isAnswered(att, qs[i].questionId)})
      unansweredQuestions == Filter(qs, {i \in DOMAIN qs : ~isAnswered(att, qs[i].questionId)})
  IN IF hasProgress /\ Len(pr.weakTopics) > 0 /\ Len(weakTopicQuestions) > 0
     THEN {weakTopicQuestions[1].questionId}
     ELSE IF Len(unansweredQuestions) > 0
          THEN {unansweredQuestions[i].questionId : i \in DOMAIN unansweredQuestions}
          ELSE {NoQuestion}

RECURSIVE SumLen(_, _)
SumLen(atts, i) == IF i > Len(atts) THEN 0 ELSE Len(atts[i].answers) + SumLen(atts, i + 1)

TotalSubmits == SumLen(attempts, 1)

(* quiz.questions.find(q => q.questionId === questionId), as an index *)
findQuestion(qz, questionId) ==
  FindIndex({i \in DOMAIN Quiz[qz].questions : Quiz[qz].questions[i].questionId = questionId})

(* the status /submit-answer answers with, from its early returns *)
SubmitStatus(user, attemptId, questionId) ==
  IF role(user) # "student" THEN "AccessDenied"
  ELSE IF attemptId \notin DOMAIN attempts THEN "NotFound"
  ELSE IF attempts[attemptId].student # user THEN "AccessDenied"
  ELSE IF findQuestion(attempts[attemptId].quiz, questionId) = 0 THEN "NotFound"
  ELSE "ok"

(* the reply of the completion branch: lines 1209-1217 *)
completionReply(att) ==
  [completed |-> TRUE, score |-> att.score, correctAnswers |-> att.correctAnswers,
   totalQuestions |-> att.totalQuestions, timeSpent |-> att.timeSpent,
   nextQuestion |-> NoQuestion]

(* SubmitAnswer with progress.save() after the topic mastery update of     *)
(* every answer                                                            *)
SubmitAnswer_SavesMastery(user, attemptId, questionId, answer, timeSpent) ==
  /\ SubmitStatus(user, attemptId, questionId) = "ok"
  /\ TotalSubmits < MaxSubmits
  /\ LET attempt == attempts[attemptId]
         qz == attempt.quiz
         question == Quiz[qz].questions[findQuestion(qz, questionId)]
         isCorrect == isAnswerCorrect(question, answer)
         att1 == recordAnswer(attempt, questionId, isCorrect, timeSpent)
         key == <<user, qz>>
         hasProgress == key \in DOMAIN progress
         pr0 == IF hasProgress THEN progress[key] ELSE NewProgress(qz)
         pr1 == updateTopicMastery(pr0, question.topic, isCorrect)
     IN IF isComplete(att1, qz)
        THEN LET att2 == completeAttempt(att1, qz, now)
             IN /\ attempts' = [attempts EXCEPT ![attemptId] = att2]
                /\ progress' = IF hasProgress
                               THEN put(progress, key, finalizeProgress(pr1, att2.score))
                               ELSE progress
                /\ gameState' = put(gameState, user,
                                    updateGameState(gameState[user], att2, qz, now))
                /\ xpGrants' = [xpGrants EXCEPT ![user] = @ + 1]
                /\ UNCHANGED <<quizStore, now, calc, inflight>>
        ELSE /\ attempts' = [attempts EXCEPT ![attemptId] = att1]
             /\ progress' = IF hasProgress THEN put(progress, key, pr1) ELSE progress
             /\ UNCHANGED <<quizStore, gameState, xpGrants, now, calc, inflight>>

(* The reply of an accepted request is a function of the state it leaves:  *)
(* completed with the stored score, or one of getNextQuestion.            *)
SubmitAnswer(user, attemptId, questionId, answer, timeSpent) ==
  /\ SubmitStatus(user, attemptId, questionId) = "ok"
  /\ TotalSubmits < MaxSubmits
  /\ LET attempt == attempts[attemptId]
         qz == attempt.quiz
         qi == findQuestion(qz, questionId)
         question == Quiz[qz].questions[qi]
         isCorrect == isAnswerCorrect(question, answer)
         att1 == recordAnswer(attempt, questionId, isCorrect, timeSpent)
         key == <<user, qz>>
         hasProgress == key \in DOMAIN progress
         pr0 == IF hasProgress THEN progress[key] ELSE NewProgress(qz)
         pr1 == updateTopicMastery(pr0, question.topic, isCorrect)
     IN IF isComplete(att1, qz)
        THEN LET att2 == completeAttempt(att1, qz, now)
             IN /\ attempts' = [attempts EXCEPT ![attemptId] = att2]
                /\ progress' = IF hasProgress
                               THEN put(progress, key, finalizeProgress(pr1, att2.score))
                               ELSE progress
                /\ gameState' = put(gameState, user,
                                    updateGameState(gameState[user], att2, qz, now))
                /\ xpGrants' = [xpGrants EXCEPT ![user] = @ + 1]
                /\ UNCHANGED <<quizStore, now, calc, inflight>>
        ELSE /\ attempts' = [attempts EXCEPT ![attemptId] = att1]
             /\ UNCHANGED <<quizStore, progress, gameState, xpGrants, now, calc, inflight>>

----------------------------------------------------------------------------
(* POST /lecture: from the generator's output to the stored quiz *)

(* JavaScript values of a generated question's difficulty and type: a      *)
(* string is itself, the number n is "#n", a missing field is "undefined"  *)
GenDifficulties ==
  {"easy", "medium", "hard", "expert", "master", "unknown", "4", "undefined",
   "#0", "#1", "#2", "#3", "#4", "#5", "#6"}

GenTypes == {"multiple-choice", "true-false", "short-answer", "essay", "undefined"}

isNumber(v) == v \in {"#0", "#1", "#2", "#3", "#4", "#5", "#6"}

FiveLevels == <<"easy", "medium", "hard", "expert", "master">>

(* the mapping of a numeric difficulty, with the fallback for other numbers *)
numericDifficulty(v, fallback) ==
  CASE v = "#1" -> "easy"
    [] v = "#2" -> "medium"
    [] v = "#3" -> "hard"
    [] v = "#4" -> "expert"
    [] v = "#5" -> "master"
    [] OTHER -> fallback

fixType(t) == IF t \in {"multiple-choice", "true-false", "short-answer"} THEN t
              ELSE "multiple-choice"

(* AIService.generateQuestions: validatedQuestions of the parsed reply *)
generateQuestions(q, index) ==
  [difficulty |-> IF isNumber(q.difficulty) \/ ~Includes(FiveLevels, q.difficulty)
                  THEN (IF isNumber(q.difficulty)
                        THEN numericDifficulty(q.difficulty, "medium")
                        ELSE FiveLevels[(index % 5) + 1])
                  ELSE q.difficulty,
   type |-> fixType(q.type)]

(* AIService.generateAdaptiveQuestions: validatedQuestions of the reply to *)
(* the prompt for one difficulty level                                     *)
generateAdaptiveQuestions(q, difficulty) ==
  [difficulty |-> IF isNumber(q.difficulty) \/ ~Includes(FiveLevels, q.difficulty)
                  THEN (IF isNumber(q.difficulty)
                        THEN numericDifficulty(q.difficulty, difficulty)
                        ELSE difficulty)
                  ELSE q.difficulty,
   type |-> fixType(q.type)]

(* /lecture: validatedQuestions *)
validatedQuestions(q) ==
  [difficulty |-> IF ~Includes(FiveLevels, q.difficulty)
                  THEN (IF isNumber(q.difficulty)
                        THEN numericDifficulty(q.difficulty, "medium")
                        ELSE "medium")
                  ELSE q.difficulty,
   type |-> fixType(q.type)]

(* questionSchema with the five levels of the route in its enum *)
questionSchemaValid_FiveLevels(q) ==
  /\ q.type \in {"multiple-choice", "true-false", "short-answer"}
  /\ Includes(FiveLevels, q.difficulty)

(* questionSchema: the enum validators that quiz.save() runs *)
questionSchemaValid(q) ==
  /\ q.type \in {"multiple-choice", "true-false", "short-answer"}
  /\ q.difficulty \in {"easy", "medium", "hard"}

(* the question as the route hands it to quiz.save(), and whether the save *)
(* stores the quiz (a ValidationError stores nothing and answers 500)      *)
uploadLecture(generated) ==
  LET q == validatedQuestions(generated)
  IN [saved |-> questionSchemaValid(q), question |-> q]

----------------------------------------------------------------------------
(* GET /adaptive/next/:attemptId *)

(* the status /adaptive/next answers with, from its early returns *)
AdaptiveNextStatus(user, attemptId) ==
  IF role(user) # "student" THEN "AccessDenied"
  ELSE IF attemptId \notin DOMAIN attempts THEN "NotFound"
  ELSE IF attempts[attemptId].student # user THEN "AccessDenied"
  ELSE IF ~Quiz[attempts[attemptId].quiz].adaptiveMode THEN "NotAdaptive"
  ELSE "ok"

(* nextDifficulty from currentAccuracy = correctAnswers / answeredQuestions *)
nextDifficulty(att) ==
  LET answeredQuestions == Len(att.answers)
      correctAnswers == Cardinality({i \in DOMAIN att.answers : att.answers[i].isCorrect})
  IN IF 10 * correctAnswers >= 8 * answeredQuestions THEN "hard"
     ELSE IF 10 * correctAnswers >= 6 * answeredQuestions THEN "medium"
     ELSE "easy"

(* the question the handler replies with, NoQuestion when it has none; the *)
(* handler reads and writes nothing else                                   *)
adaptiveNext(qz, att) ==
  LET qs == Quiz[qz].questions
      easy == FindIndex({i \in DOMAIN qs : qs[i].difficulty = "easy"})
      availableQuestions ==
        Filter(qs, {i \in DOMAIN qs : /\ qs[i].difficulty = nextDifficulty(att)
                                       /\ ~isAnswered(att, qs[i].questionId)})
      allRemainingQuestions == Filter(qs, {i \in DOMAIN qs : ~isAnswered(att, qs[i].questionId)})
  IN IF Len(att.answers) = 0
     THEN (IF easy = 0 THEN NoQuestion ELSE qs[easy].questionId)
     ELSE IF Len(availableQuestions) > 0 THEN availableQuestions[1].questionId
     ELSE IF Len(allRemainingQuestions) > 0 THEN allRemainingQuestions[1].questionId
     ELSE NoQuestion

----------------------------------------------------------------------------
(* Passing of time *)

Tick ==
  /\ now < MaxNow
  /\ now' = now + 1
  /\ UNCHANGED <<quizStore, attempts, progress, gameState, xpGrants, calc, inflight>>

Next ==
  \/ \E user \in Users, quizId \in QuizIdInputs : StartQuiz(user, quizId)
  \/ \E user \in Users, attemptId \in 1..MaxAttempts + 1, questionId \in QuestionIdInputs,
        answer \in AnswerInputs, timeSpent \in TimeSpentInputs :
       SubmitAnswer(user, attemptId, questionId, answer, timeSpent)
  \/ Tick

Spec == Init /\ [][Next]_vars

----------------------------------------------------------------------------
(* The pure parts of the handlers, called on their own *)

(* a ProgressRecord as /submit-answer stores it after earlier attempts:    *)
(* counts[i] = <<questionsAnswered, correctAnswers>> of the i-th topic     *)
StoredProgress(qz, counts) ==
  [NewProgress(qz) EXCEPT
     !.topicMastery =
        [i \in DOMAIN Quiz[qz].topics |->
           [topic |-> Quiz[qz].topics[i],
            mastery |-> IF counts[i][1] > 0 THEN Pct(counts[i][2], counts[i][1]) ELSE Zero,
            questionsAnswered |-> counts[i][1], correctAnswers |-> counts[i][2]]]]

TopicCounts == {c \in (0..MaxAnswered) \X (0..MaxAnswered) : c[2] <= c[1]}

(* the progress update of a completing answer: lines 1160-1203 *)
CalcFinalize ==
  /\ calc = NoCalc
  /\ \E c1 \in TopicCounts, c2 \in TopicCounts, topic \in {"t1", "t2"}, isCorrect \in BOOLEAN :
       LET pr0 == StoredProgress("qzA", <<c1, c2>>)
           pr1 == updateTopicMastery(pr0, topic, isCorrect)
       IN calc' = [fn |-> "finalizeProgress", in |-> pr0,
                   out |-> finalizeProgress(pr1, Pct(1, 3))]

(* an attempt on the quiz as the completing /submit-answer stores it, with *)
(* the first `correct` of its answers right                                *)
CompletedAttempt(qz, correct, timeSpent) ==
  [NewAttempt("s1", qz) EXCEPT
     !.answers = [i \in 1..totalQuestions(qz) |->
                    [questionId |-> Quiz[qz].questions[i].questionId,
                     isCorrect |-> i <= correct]],
     !.correctAnswers = correct,
     !.timeSpent = timeSpent,
     !.score = Pct(correct, totalQuestions(qz)),
     !.isCompleted = TRUE,
     !.completedAt = 0]

(* the xp that updateGameState adds for one attempt: lines 1326-1333 *)
CalcXP ==
  /\ calc = NoCalc
  /\ \E qz \in {"qzA", "qzB"}, timeSpent \in 0..MaxSeconds, xp \in {0, 170} :
       \E correct \in 0..totalQuestions(qz) :
         LET att == CompletedAttempt(qz, correct, timeSpent)
             gs == addXP(NewGameState(0), xp)
         IN calc' = [fn |-> "totalXP",
                     in |-> [score |-> att.score, timeSpent |-> timeSpent,
                             timeLimit |-> Quiz[qz].timeLimit, xp |-> xp],
                     out |-> updateGameState(gs, att, qz, 0).xp - gs.xp]

(* calculateLevel on a GameState with the given xp *)
CalcLevel ==
  /\ calc = NoCalc
  /\ \E xp \in 0..MaxXP :
       calc' = [fn |-> "calculateLevel", in |-> xp, out |-> calculateLevel(xp)]

(* the reward update of a student whose last activity was at tick last and *)
(* whose streak is cur, for an attempt completed at tick t                 *)
CalcStreak ==
  /\ calc = NoCalc
  /\ \E last \in 0..MaxTick, cur \in 0..MaxStreak :
       \E t \in last..MaxTick :
         LET gs == [NewGameState(last) EXCEPT !.streaks.current = cur,
                                              !.streaks.longest = cur]
             att == CompletedAttempt("qzB", 1, 20)
         IN calc' = [fn |-> "updateStreak",
                     in |-> [lastActivity |-> last, current |-> cur, now |-> t],
                     out |-> updateGameState(gs, att, "qzB", t).streaks]

(* the answers of an attempt that is in progress after an accepted answer *)
AnswersInProgress(qz) ==
  LET ids == {Quiz[qz].questions[i].questionId : i \in DOMAIN Quiz[qz].questions}
      rec == [questionId : ids, isCorrect : BOOLEAN]
  IN UNION {[1..n -> rec] : n \in 1..(totalQuestions(qz) - 1)}

WeakTopicLists == {<< >>, <<"t1">>, <<"t2">>, <<"t1", "t2">>}

(* the nextQuestion of the reply of a non-completing /submit-answer: the   *)
(* attempt with the answer recorded, the progress of the student and quiz  *)
CalcNext ==
  /\ calc = NoCalc
  /\ \E qz \in {"qzA", "qzF", "qzD"}, weak \in WeakTopicLists :
       \E answers \in AnswersInProgress(qz) :
         LET att == [NewAttempt("s1", qz) EXCEPT
                       !.answers = answers,
                       !.correctAnswers =
                          Cardinality({i \in DOMAIN answers : answers[i].isCorrect}),
                       !.timeSpent = 20 * Len(answers)]
             pr == [NewProgress(qz) EXCEPT !.weakTopics = weak]
         IN calc' = [fn |-> "getNextQuestion",
                     in |-> [quiz |-> qz, attempt |-> att, weakTopics |-> weak],
                     out |-> getNextQuestion(qz, att, TRUE, pr)]

(* the question of the reply of GET /adaptive/next for an attempt on an    *)
(* adaptive quiz, beside the weakTopics stored for the student and quiz     *)
CalcAdaptive ==
  /\ calc = NoCalc
  /\ \E qz \in {"qzA"}, weak \in WeakTopicLists :
       \E answers \in AnswersInProgress(qz) \cup {<< >>} :
         LET att == [NewAttempt("s1", qz) EXCEPT
                       !.answers = answers,
                       !.correctAnswers =
                          Cardinality({i \in DOMAIN answers : answers[i].isCorrect}),
                       !.timeSpent = 20 * Len(answers)]
         IN calc' = [fn |-> "adaptiveNext",
                     in |-> [quiz |-> qz, attempt |-> att, weakTopics |-> weak],
                     out |-> {adaptiveNext(qz, att)}]

(* one question of the generator's reply at position index, on the         *)
(* standard path and on the adaptive path for the prompt of one level      *)
CalcLecture ==
  /\ calc = NoCalc
  /\ \E difficulty \in GenDifficulties, type \in GenTypes, index \in 0..MaxIndex,
        level \in {"standard", "easy", "medium", "hard"} :
       LET raw == [difficulty |-> difficulty, type |-> type]
           generated == IF level = "standard" THEN generateQuestions(raw, index)
                        ELSE generateAdaptiveQuestions(raw, level)
       IN calc' = [fn |-> "uploadLecture",
                   in |-> [raw |-> raw, index |-> index, level |-> level],
                   out |-> uploadLecture(generated)]

(* the completion branch of /submit-answer with a reward update in which   *)
(* one step throws: the attempt is saved before updateGameState is called  *)
CalcRewardFailure ==
  /\ calc = NoCalc
  /\ \E qz \in {"qzA", "qzB"}, xp \in {0, 170}, t \in 0..MaxTick,
        failAt \in {RewardSteps[i] : i \in DOMAIN RewardSteps} \cup {"none"} :
       \E correct \in 0..totalQuestions(qz) :
         LET att == CompletedAttempt(qz, correct, 20 * totalQuestions(qz))
             gs == addXP(NewGameState(0), xp)
         IN calc' = [fn |-> "updateGameState",
                     in |-> [gameState |-> gs, failAt |-> failAt, quiz |-> qz, now |-> t],
                     out |-> [gameState |-> rewardStored(gs, att, qz, t, failAt),
                              returned |-> rewardReturned(failAt),
                              attempt |-> att,
                              reply |-> completionReply(att)]]

(* two reward updates in a row for a new student: attempts on qzB that     *)
(* took first and second seconds (timeSpent is the sum of the submitted    *)
(* timeSpent values, 0 when the client sends none)                         *)
CalcFastest ==
  /\ calc = NoCalc
  /\ \E first \in {0, 20, 40}, second \in {0, 20, 40}, correct \in 0..1 :
       LET gs0 == NewGameState(0)
           gs1 == updateGameState(gs0, CompletedAttempt("qzB", correct, first), "qzB", 0)
           gs2 == updateGameState(gs1, CompletedAttempt("qzB", correct, second), "qzB", 0)
       IN calc' = [fn |-> "fastestQuiz",
                   in |-> [first |-> first, second |-> second, correct |-> correct],
                   out |-> <<gs0.stats.fastestQuiz, gs1.stats.fastestQuiz,
                             gs2.stats.fastestQuiz>>]

FrozenStore == UNCHANGED <<quizStore, attempts, progress, gameState, xpGrants, now, inflight>>

NextCalc ==
  \/ CalcFinalize /\ FrozenStore
  \/ CalcXP /\ FrozenStore
  \/ CalcLevel /\ FrozenStore
  \/ CalcStreak /\ FrozenStore
  \/ CalcNext /\ FrozenStore
  \/ CalcLecture /\ FrozenStore
  \/ CalcRewardFailure /\ FrozenStore
  \/ CalcAdaptive /\ FrozenStore
  \/ CalcFastest /\ FrozenStore

SpecCalc == Init /\ [][NextCalc]_vars

----------------------------------------------------------------------------
(* Two /submit-answer requests between their awaits.  Node runs the code   *)
(* between two awaits without interruption, so a request is a sequence of  *)
(* steps, one per database call, and the steps of two requests interleave. *)
(* A request works on the documents it loaded; document.save() writes the  *)
(* paths the request assigned ($set) and appends the elements it pushed to *)
(* an array ($push), whatever the stored document holds by then.           *)

(* a document the request has not loaded yet *)
NotLoaded == 0

Request(user, attemptId, questionId, answer) ==
  [user |-> user, attemptId |-> attemptId, questionId |-> questionId, answer |-> answer,
   timeSpent |-> 20, pc |-> "findAttempt", reply |-> "none",
   attempt |-> NotLoaded, progress |-> NotLoaded, gameState |-> NotLoaded]

(* the progress document /start leaves for a first attempt *)
StartedProgress(qz, id) ==
  [NewProgress(qz) EXCEPT !.attempts = <<id>>, !.totalAttempts = 1]

(* the stores the two requests meet: one attempt of s1 on qzA with q1      *)
(* answered and requests for q2 and q3 of it; or an attempt on qzA with q1 *)
(* and q2 answered, a fresh attempt on qzB, and a request for the last     *)
(* question of each                                                        *)
RaceScenarios ==
  {[attempts |-> <<recordAnswer(NewAttempt("s1", "qzA"), "q1", c, 20)>>,
    progress |-> put(<< >>, <<"s1", "qzA">>, StartedProgress("qzA", 1)),
    inflight |-> <<Request("s1", 1, "q2", a1), Request("s1", 1, "q3", a2)>>] :
     c \in BOOLEAN, a1 \in {"B", "X"}, a2 \in {"B", "X"}}
  \cup
  {[attempts |-> <<recordAnswer(recordAnswer(NewAttempt("s1", "qzA"), "q1", c, 20),
                                "q2", c, 20),
                   NewAttempt("s1", "qzB")>>,
    progress |-> put(put(<< >>, <<"s1", "qzA">>, StartedProgress("qzA", 1)),
                     <<"s1", "qzB">>, StartedProgress("qzB", 2)),
    inflight |-> <<Request("s1", 1, "q3", a1), Request("s1", 2, "q1", a2)>>] :
     c \in BOOLEAN, a1 \in {"B", "X"}, a2 \in {"B", "X"}}

InitRace ==
  /\ quizStore = {"qzA", "qzB"}
  /\ \E sc \in RaceScenarios :
       /\ attempts = sc.attempts
       /\ progress = sc.progress
       /\ inflight = sc.inflight
  /\ gameState = [s \in Students |-> NewGameState(0)]
  /\ xpGrants = [s \in Students |-> 0]
  /\ now = 0
  /\ calc = NoCalc

(* the value save() leaves at a path: written when the request changed it *)
saved(stored, loaded, assigned) == IF assigned # loaded THEN assigned ELSE stored

(* the elements save() appends to an array: those pushed since the load *)
pushed(loaded, changed) == SubSeq(changed, Len(loaded) + 1, Len(changed))

(* attempt.save() *)
saveAttempt(stored, loaded, m) ==
  [stored EXCEPT
     !.answers = @ \o pushed(loaded.answers, m.answers),
     !.timeSpent = saved(@, loaded.timeSpent, m.timeSpent),
     !.correctAnswers = saved(@, loaded.correctAnswers, m.correctAnswers),
     !.score = saved(@, loaded.score, m.score),
     !.isCompleted = saved(@, loaded.isCompleted, m.isCompleted),
     !.completedAt = saved(@, loaded.completedAt, m.completedAt)]

(* progress.save() *)
saveProgress(stored, loaded, m) ==
  [stored EXCEPT
     !.bestScore = saved(@, loaded.bestScore, m.bestScore),
     !.weakTopics = saved(@, loaded.weakTopics, m.weakTopics),
     !.strongTopics = saved(@, loaded.strongTopics, m.strongTopics),
     !.topicMastery =
        [i \in DOMAIN stored.topicMastery |->
           [topic |-> stored.topicMastery[i].topic,
            mastery |-> saved(stored.topicMastery[i].mastery,
                              loaded.topicMastery[i].mastery, m.topicMastery[i].mastery),
            questionsAnswered |-> saved(stored.topicMastery[i].questionsAnswered,
                                        loaded.topicMastery[i].questionsAnswered,
                                        m.topicMastery[i].questionsAnswered),
            correctAnswers |-> saved(stored.topicMastery[i].correctAnswers,
                                     loaded.topicMastery[i].correctAnswers,
                                     m.topicMastery[i].correctAnswers)]]]

(* gameState.save() *)
saveGameState(stored, loaded, m) ==
  [xp |-> saved(stored.xp, loaded.xp, m.xp),
   level |-> saved(stored.level, loaded.level, m.level),
   badges |-> stored.badges \o pushed(loaded.badges, m.badges),
   streaks |->
     [current |-> saved(stored.streaks.current, loaded.streaks.current, m.streaks.current),
      longest |-> saved(stored.streaks.longest, loaded.streaks.longest, m.streaks.longest),
      lastActivity |-> saved(stored.streaks.lastActivity, loaded.streaks.lastActivity,
                             m.streaks.lastActivity)],
   stats |->
     [f \in DOMAIN stored.stats |-> saved(stored.stats[f], loaded.stats[f], m.stats[f])]]

(* the question of the request and the correctness of its answer *)
questionOf(r) ==
  Quiz[attempts[r.attemptId].quiz].questions[findQuestion(attempts[r.attemptId].quiz,
                                                          r.questionId)]

(* await Attempt.findById(attemptId) *)
FindAttempt(p) ==
  /\ inflight[p].pc = "findAttempt"
  /\ SubmitStatus(inflight[p].user, inflight[p].attemptId, inflight[p].questionId) = "ok"
  /\ inflight' = [inflight EXCEPT ![p].attempt = attempts[inflight[p].attemptId],
                                  ![p].pc = "saveAnswer"]
  /\ UNCHANGED <<quizStore, attempts, progress, gameState, xpGrants, now, calc>>

(* the answer is pushed on the loaded attempt; await attempt.save() *)
SaveAnswer(p) ==
  LET r == inflight[p]
      isCorrect == isAnswerCorrect(questionOf(r), r.answer)
      att1 == recordAnswer(r.attempt, r.questionId, isCorrect, r.timeSpent)
  IN /\ r.pc = "saveAnswer"
     /\ attempts' = [attempts EXCEPT ![r.attemptId] = saveAttempt(@, r.attempt, att1)]
     /\ inflight' = [inflight EXCEPT ![p].attempt = att1, ![p].pc = "findProgress"]
     /\ UNCHANGED <<quizStore, progress, gameState, xpGrants, now, calc>>

(* await Progress.findOne(...), the mastery update on the loaded document, *)
(* and the completion test on the loaded attempt; a request that does not  *)
(* complete the attempt replies with the next question                     *)
FindProgress(p) ==
  LET r == inflight[p]
      qz == r.attempt.quiz
      key == <<r.user, qz>>
      isCorrect == isAnswerCorrect(questionOf(r), r.answer)
  IN /\ r.pc = "findProgress"
     /\ inflight' =
          [inflight EXCEPT
             ![p].progress = IF key \in DOMAIN progress THEN progress[key] ELSE NotLoaded,
             ![p].pc = IF isComplete(r.attempt, qz) THEN "saveCompletion" ELSE "done",
             ![p].reply = IF isComplete(r.attempt, qz) THEN "none" ELSE "next"]
     /\ UNCHANGED <<quizStore, attempts, progress, gameState, xpGrants, now, calc>>

(* score, isCompleted, completedAt; await attempt.save() *)
SaveCompletion(p) ==
  LET r == inflight[p]
      att2 == completeAttempt(r.attempt, r.attempt.quiz, now)
  IN /\ r.pc = "saveCompletion"
     /\ attempts' = [attempts EXCEPT ![r.attemptId] = saveAttempt(@, r.attempt, att2)]
     /\ inflight' = [inflight EXCEPT ![p].attempt = att2, ![p].pc = "saveProgress"]
     /\ UNCHANGED <<quizStore, progress, gameState, xpGrants, now, calc>>

(* bestScore, weakTopics, strongTopics; await progress.save() *)
SaveProgress(p) ==
  LET r == inflight[p]
      key == <<r.user, r.attempt.quiz>>
      isCorrect == isAnswerCorrect(questionOf(r), r.answer)
      pr1 == updateTopicMastery(r.progress, questionOf(r).topic, isCorrect)
      pr2 == finalizeProgress(pr1, r.attempt.score)
  IN /\ r.pc = "saveProgress"
     /\ progress' = IF key \in DOMAIN progress
                    THEN [progress EXCEPT ![key] = saveProgress(@, r.progress, pr2)]
                    ELSE progress
     /\ inflight' = [inflight EXCEPT ![p].pc = "findGameState"]
     /\ UNCHANGED <<quizStore, attempts, gameState, xpGrants, now, calc>>

(* updateGameState: await GameState.findOne({ student }) *)
FindGameState(p) ==
  /\ inflight[p].pc = "findGameState"
  /\ inflight' = [inflight EXCEPT ![p].gameState = gameState[inflight[p].user],
                                  ![p].pc = "saveGameState"]
  /\ UNCHANGED <<quizStore, attempts, progress, gameState, xpGrants, now, calc>>

(* updateGameState: xp, statistics, streak and badges on the loaded        *)
(* document; await gameState.save(); the handler replies completed         *)
SaveGameState(p) ==
  LET r == inflight[p]
      gs == updateGameState(r.gameState, r.attempt, r.attempt.quiz, now)
  IN /\ r.pc = "saveGameState"
     /\ gameState' = [gameState EXCEPT ![r.user] = saveGameState(@, r.gameState, gs)]
     /\ xpGrants' = [xpGrants EXCEPT ![r.user] = @ + 1]
     /\ inflight' = [inflight EXCEPT ![p].pc = "done", ![p].reply = "completed"]
     /\ UNCHANGED <<quizStore, attempts, progress, now, calc>>

NextRace ==
  \/ \E p \in DOMAIN inflight : FindAttempt(p)
  \/ \E p \in DOMAIN inflight : SaveAnswer(p)
  \/ \E p \in DOMAIN inflight : FindProgress(p)
  \/ \E p \in DOMAIN inflight : SaveCompletion(p)
  \/ \E p \in DOMAIN inflight : SaveProgress(p)
  \/ \E p \in DOMAIN inflight : FindGameState(p)
  \/ \E p \in DOMAIN inflight : SaveGameState(p)

SpecRace == InitRace /\ [][NextRace]_vars

----------------------------------------------------------------------------
(* Quantities the properties below talk about *)

AttemptIds == DOMAIN attempts

(* the attempts of one student on one quiz *)
AttemptsOf(s, qz) == {a \in AttemptIds : attempts[a].student = s /\ attempts[a].quiz = qz}

CompletedOf(s) == {a \in AttemptIds : attempts[a].student = s /\ attempts[a].isCompleted}

topicOf(qz, questionId) == Quiz[qz].questions[findQuestion(qz, questionId)].topic

(* answers the student gave on the quiz to questions of the topic *)
AnsweredOn(s, qz, topic, onlyCorrect) ==
  Cardinality({<<a, i>> \in AttemptsOf(s, qz) \X (1..MaxSubmits + 1) :
                 /\ i \in DOMAIN attempts[a].answers
                 /\ topicOf(qz, attempts[a].answers[i].questionId) = topic
                 /\ (onlyCorrect => attempts[a].answers[i].isCorrect)})

(* the highest of the given scores, Zero for none *)
MaxScore(S) == IF S = {} THEN Zero
               ELSE CHOOSE x \in S : \A y \in S : ~FracLess(x, y)

(* the xp at which level k + 1 is reached: 100, and 50 * (k + 1) more than *)
(* the threshold before for each further level (100, 200, 350, 550, ...)   *)
RECURSIVE Threshold(_)
Threshold(k) == IF k = 1 THEN 100 ELSE Threshold(k - 1) + k * 50

(* the calendar day a clock tick falls on *)
DayOf(t) == t \div TicksPerDay

(* the difficulty of a question of the quiz *)
difficultyOf(qz, questionId) == Quiz[qz].questions[findQuestion(qz, questionId)].difficulty

(* the difficulty the adaptive rule asks for after `answered` answers of   *)
(* which `correct` were right                                              *)
TargetDifficulty(correct, answered) ==
  IF answered = 0 THEN "easy"
  ELSE IF 5 * correct >= 4 * answered THEN "hard"
  ELSE IF 5 * correct >= 3 * answered THEN "medium"
  ELSE "easy"

(* the attempt has an unanswered question of the difficulty *)
HasUnanswered(qz, att, diff) ==
  \E i \in DOMAIN Quiz[qz].questions :
    /\ Quiz[qz].questions[i].difficulty = diff
    /\ ~isAnswered(att, Quiz[qz].questions[i].questionId)

(* the first question of the quiz, in stored order, that has no answer *)
LowestUnanswered(qz, att) ==
  LET open == {i \in DOMAIN Quiz[qz].questions : ~isAnswered(att, Quiz[qz].questions[i].questionId)}
  IN IF open = {} THEN NoQuestion
     ELSE Quiz[qz].questions[CHOOSE i \in open : \A j \in open : i <= j].questionId

(* the questions the reply of an accepted, non-completing /submit-answer   *)
(* on attempt a may carry as nextQuestion, in the step that records it     *)
SubmitReplyNext(a) ==
  LET key == <<attempts[a].student, attempts[a].quiz>>
  IN getNextQuestion(attempts[a].quiz, attempts'[a], key \in DOMAIN progress,
                     IF key \in DOMAIN progress THEN progress[key]
                     ELSE NewProgress(attempts[a].quiz))

(* a step in which attempt a records an answer and stays in progress *)
AnswerRecorded(a) ==
  /\ Len(attempts'[a].answers) = Len(attempts[a].answers) + 1
  /\ ~attempts'[a].isCompleted

----------------------------------------------------------------------------
(* C1: once an attempt is Completed, no later step changes its answers,    *)
(* correctAnswers, timeSpent, score or completion timestamp (a further     *)
(* submitAnswer on it is rejected).                                        *)
C1_CompletedIsTerminal ==
  [][\A a \in AttemptIds :
       attempts[a].isCompleted =>
         /\ attempts'[a].answers = attempts[a].answers
         /\ attempts'[a].correctAnswers = attempts[a].correctAnswers
         /\ attempts'[a].timeSpent = attempts[a].timeSpent
         /\ attempts'[a].score = attempts[a].score
         /\ attempts'[a].completedAt = attempts[a].completedAt]_vars

(* C2: a submitAnswer for a question already answered in an in-progress    *)
(* session is rejected with InvalidState and leaves the session unchanged: *)
(* every step that changes an in-progress session records an answer to a   *)
(* question that had no answer yet.                                        *)
C2_ResubmissionRejected ==
  [][\A a \in AttemptIds :
       (~attempts[a].isCompleted /\ attempts'[a] # attempts[a]) =>
         /\ Len(attempts'[a].answers) = Len(attempts[a].answers) + 1
         /\ ~isAnswered(attempts[a],
                        attempts'[a].answers[Len(attempts'[a].answers)].questionId)]_vars

(* C3: the number of reward updates applied to a student's GameState       *)
(* (totalQuizzesCompleted, and the number of xp grants) equals the number  *)
(* of the student's attempts that have reached Completed.                  *)
C3_RewardOncePerCompletion ==
  \A s \in Students :
    /\ gameState[s].stats.totalQuizzesCompleted = Cardinality(CompletedOf(s))
    /\ xpGrants[s] = Cardinality(CompletedOf(s))

(* C4: the stored correctAnswers counter of every attempt equals the       *)
(* number of its stored AnswerRecords that are correct.                    *)
C4_CorrectAnswersCount ==
  \A a \in AttemptIds :
    attempts[a].correctAnswers =
      Cardinality({i \in DOMAIN attempts[a].answers : attempts[a].answers[i].isCorrect})

C4_Witness ==
  \E a \in AttemptIds :
    /\ \E i \in DOMAIN attempts[a].answers : attempts[a].answers[i].isCorrect
    /\ \E i \in DOMAIN attempts[a].answers : ~attempts[a].answers[i].isCorrect

(* C5: an attempt is Completed (with a completion timestamp) exactly when  *)
(* the number of its recorded answers has reached the quiz's               *)
(* totalQuestions, and is InProgress without timestamp while it has fewer. *)
C5_CompletedIffAllAnswered ==
  \A a \in AttemptIds :
    /\ attempts[a].isCompleted <=>
         (Len(attempts[a].answers) >= totalQuestions(attempts[a].quiz))
    /\ attempts[a].isCompleted <=> (attempts[a].completedAt # NoDate)

(* C6 as stated: the stored score of every completed attempt is            *)
(* round(correctAnswers / totalQuestions * 100).                           *)
C6_ScoreIsRounded ==
  \A a \in AttemptIds :
    attempts[a].isCompleted =>
      attempts[a].score =
        <<Round(Pct(attempts[a].correctAnswers, totalQuestions(attempts[a].quiz))), 1>>

(* C6 amended: the stored score of every completed attempt is exactly      *)
(* correctAnswers / totalQuestions * 100 of its stored counter, without    *)
(* rounding (1 of 3 is stored as 100/3, which is not a whole number).      *)
C6_ScoreIsExactRatio ==
  \A a \in AttemptIds :
    attempts[a].isCompleted =>
      /\ attempts[a].score[2] > 0
      /\ attempts[a].score[1] * totalQuestions(attempts[a].quiz)
           = 100 * attempts[a].correctAnswers * attempts[a].score[2]

C6_Witness ==
  \E a \in AttemptIds :
    /\ attempts[a].isCompleted
    /\ attempts[a].correctAnswers = 1
    /\ totalQuestions(attempts[a].quiz) = 3
    /\ attempts[a].score[2] # 1

(* C7: the bestScore of the ProgressRecord of a (student, quiz) pair is    *)
(* the maximum score over the student's completed attempts of the quiz,    *)
(* 0 when there is none.                                                   *)
C7_BestScoreIsMax ==
  \A key \in DOMAIN progress :
    progress[key].bestScore =
      MaxScore({attempts[a].score :
                  a \in {b \in AttemptsOf(key[1], key[2]) : attempts[b].isCompleted}})

C7_Witness ==
  \E key \in DOMAIN progress :
    \E a, b \in AttemptsOf(key[1], key[2]) :
      /\ a < b
      /\ attempts[a].isCompleted /\ attempts[b].isCompleted
      /\ FracLess(attempts[b].score, attempts[a].score)
      /\ attempts[b].completedAt >= attempts[a].completedAt

(* C8: for each topic of a stored ProgressRecord, questionsAnswered is the *)
(* number of answers the student has submitted on that quiz to questions   *)
(* of the topic, and correctAnswers the number of those that were correct. *)
C8_EveryAnswerCounted ==
  \A key \in DOMAIN progress :
    \A i \in DOMAIN progress[key].topicMastery :
      LET tm == progress[key].topicMastery[i]
      IN /\ tm.questionsAnswered = AnsweredOn(key[1], key[2], tm.topic, FALSE)
         /\ tm.correctAnswers = AnsweredOn(key[1], key[2], tm.topic, TRUE)

(* C9: in every stored ProgressRecord, a topic with questionsAnswered > 0  *)
(* has mastery = correctAnswers / questionsAnswered * 100 of its stored    *)
(* counters, and a topic with questionsAnswered = 0 has mastery 0.         *)
C9_MasteryFromCounters ==
  \A key \in DOMAIN progress :
    \A i \in DOMAIN progress[key].topicMastery :
      LET tm == progress[key].topicMastery[i]
      IN IF tm.questionsAnswered > 0
         THEN /\ tm.mastery[2] > 0
              /\ tm.mastery[1] * tm.questionsAnswered
                   = 100 * tm.correctAnswers * tm.mastery[2]
         ELSE tm.mastery = Zero

C9_Witness ==
  \E key \in DOMAIN progress :
    \E i \in DOMAIN progress[key].topicMastery :
      LET tm == progress[key].topicMastery[i]
      IN /\ tm.questionsAnswered >= 2
         /\ tm.correctAnswers > 0
         /\ tm.correctAnswers < tm.questionsAnswered

(* C10: in every ProgressRecord no topic name is in both weakTopics and    *)
(* strongTopics.                                                           *)
C10_WeakStrongDisjoint ==
  \A key \in DOMAIN progress :
    \A i \in DOMAIN progress[key].weakTopics :
      ~Includes(progress[key].strongTopics, progress[key].weakTopics[i])

(* a topic that was answered right and wrong is classified *)
C10_Witness ==
  \E key \in DOMAIN progress :
    \E i \in DOMAIN progress[key].topicMastery :
      LET tm == progress[key].topicMastery[i]
      IN /\ tm.correctAnswers > 0
         /\ tm.correctAnswers < tm.questionsAnswered
         /\ Includes(progress[key].weakTopics, tm.topic)

(* C11: after the update of a completing answer, weakTopics is exactly the *)
(* set of topics with mastery < 70 and questionsAnswered > 0, strongTopics *)
(* exactly the set with mastery >= 80 and questionsAnswered > 0; a topic   *)
(* with no answer, or with mastery in [70, 80), is in neither list.        *)
C11_WeakStrongThresholds ==
  calc.fn = "finalizeProgress" =>
    LET pr == calc.out
        names == {pr.topicMastery[i].topic : i \in DOMAIN pr.topicMastery}
    IN /\ \A i \in DOMAIN pr.weakTopics : pr.weakTopics[i] \in names
       /\ \A i \in DOMAIN pr.strongTopics : pr.strongTopics[i] \in names
       /\ \A i \in DOMAIN pr.topicMastery :
            LET tm == pr.topicMastery[i]
            IN /\ Includes(pr.weakTopics, tm.topic) <=>
                    (tm.mastery[1] < 70 * tm.mastery[2] /\ tm.questionsAnswered > 0)
               /\ Includes(pr.strongTopics, tm.topic) <=>
                    (tm.mastery[1] >= 80 * tm.mastery[2] /\ tm.questionsAnswered > 0)

(* one topic at 75, the other never answered: both lists are empty *)
C11_Witness ==
  /\ calc.fn = "finalizeProgress"
  /\ calc.out.topicMastery[1].mastery = <<75, 1>>
  /\ calc.out.topicMastery[2].questionsAnswered = 0
  /\ calc.out.weakTopics = << >>
  /\ calc.out.strongTopics = << >>

(* C12: in every reachable GameState the stored level is the level that    *)
(* calculateLevel gives for the stored xp (calculateLevel reads nothing    *)
(* but xp), and no step lowers the level of a student.                     *)
C12_LevelInSync ==
  /\ \A s \in Students : gameState[s].level = calculateLevel(gameState[s].xp).level
  /\ [][\A s \in Students :
          /\ gameState'[s].level = calculateLevel(gameState'[s].xp).level
          /\ gameState'[s].level >= gameState[s].level]_vars

(* two reward updates, the second one crossing a level threshold *)
C12_Witness ==
  \E s \in Students :
    /\ gameState[s].stats.totalQuizzesCompleted = 2
    /\ gameState[s].xp >= 200
    /\ gameState[s].level = 3

(* C13: the badges list of every reachable GameState holds each badge id   *)
(* at most once, after any number of completed attempts.                   *)
C13_BadgesUnique ==
  \A s \in Students :
    \A i, j \in DOMAIN gameState[s].badges :
      gameState[s].badges[i] = gameState[s].badges[j] => i = j

(* two reward updates that both meet the rule of a badge the student has *)
C13_Witness ==
  \E s \in Students :
    /\ gameState[s].stats.totalQuizzesCompleted = 2
    /\ gameState[s].stats.averageAccuracy = <<100, 1>>
    /\ gameState[s].stats.totalCorrectAnswers = 2
    /\ HasBadge(gameState[s], "perfectionist")
    /\ HasBadge(gameState[s], "first_quiz")

(* C14: the xp granted for a completed attempt is 50 + floor(score / 10)   *)
(* * 10 + speedBonus, speedBonus being 20 if timeSpent (seconds) is less   *)
(* than timeLimit (minutes) * 30 and 0 otherwise, whatever the xp the      *)
(* student had.                                                            *)
C14_XpFormula ==
  calc.fn = "totalXP" =>
    LET score == calc.in.score
        tens == CHOOSE k \in 0..10 :
                  /\ 10 * k * score[2] <= score[1]
                  /\ score[1] < 10 * (k + 1) * score[2]
        speedBonus == IF calc.in.timeSpent < calc.in.timeLimit * 30 THEN 20 ELSE 0
    IN calc.out = 50 + tens * 10 + speedBonus

(* a score of 66.67 that takes exactly timeLimit * 30 seconds: 50 + 60 + 0 *)
C14_Witness ==
  /\ calc.fn = "totalXP"
  /\ calc.in.score = <<200, 3>>
  /\ calc.in.timeSpent = calc.in.timeLimit * 30
  /\ calc.in.xp > 0
  /\ calc.out = 110

(* C15: the level of an xp total is 1 plus the number of thresholds        *)
(* 100, 200, 350, 550, ... that are at most xp (each threshold is the      *)
(* previous one plus level * 50): 1 below 100, and 2 at 170.               *)
C15_LevelCurve ==
  calc.fn = "calculateLevel" =>
    /\ calc.out.level = 1 + Cardinality({k \in 1..10 : Threshold(k) <= calc.in})
    /\ (calc.in < 100 => calc.out.level = 1)
    /\ (calc.in = 170 => calc.out.level = 2)
    /\ <<Threshold(1), Threshold(2), Threshold(3), Threshold(4)>> = <<100, 200, 350, 550>>
    /\ \A k \in 1..9 : Threshold(k) < Threshold(k + 1)

(* the fourth threshold, where the fifth level starts *)
C15_Witness ==
  /\ calc.fn = "calculateLevel"
  /\ calc.in = 550
  /\ calc.out.level = 5

(* C16: a reward update moves the streak by the calendar-day gap between   *)
(* the completion and the last recorded activity: one day later, current   *)
(* grows by 1; more than one day later, current becomes 1; the same day,   *)
(* current stays; whatever the time of day of the two events.              *)
C16_StreakByCalendarDay ==
  calc.fn = "updateStreak" =>
    LET gap == DayOf(calc.in.now) - DayOf(calc.in.lastActivity)
    IN calc.out.current = IF gap = 1 THEN calc.in.current + 1
                          ELSE IF gap > 1 THEN 1
                          ELSE calc.in.current

(* C17: in adaptive mode the next question issued after an answer, by the  *)
(* reply of submitAnswer and by /adaptive/next, has the difficulty that    *)
(* the rolling accuracy asks for (hard from 0.8, medium from 0.6, easy     *)
(* below) whenever an unanswered question of that difficulty exists, and   *)
(* the first question of a started attempt is easy when the quiz has one.  *)
C17_DifficultyFollowsAccuracy ==
  [][\A a \in DOMAIN attempts' :
       LET att == attempts'[a]
           qz == att.quiz
           target == TargetDifficulty(att.correctAnswers, Len(att.answers))
       IN Quiz[qz].adaptiveMode =>
            /\ (a \notin DOMAIN attempts /\ HasUnanswered(qz, att, "easy")) =>
                  difficultyOf(qz, firstQuestion(qz)) = "easy"
            /\ (a \in DOMAIN attempts /\ AnswerRecorded(a) /\ HasUnanswered(qz, att, target)) =>
                  /\ difficultyOf(qz, adaptiveNext(qz, att)) = target
                  /\ \A q \in SubmitReplyNext(a) : difficultyOf(qz, q) = target]_vars

(* C18: in non-adaptive mode the questions are issued in fixed order: the  *)
(* first question is the first of the quiz, and the next question of a     *)
(* submitAnswer reply is the lowest-index question not yet answered.       *)
C18_FixedOrder ==
  (calc.fn = "getNextQuestion" /\ ~Quiz[calc.in.quiz].adaptiveMode) =>
    /\ firstQuestion(calc.in.quiz) = Quiz[calc.in.quiz].questions[1].questionId
    /\ calc.out = {LowestUnanswered(calc.in.quiz, calc.in.attempt)}

(* C19: a start that fails with NotFound (quiz missing) or Inactive (quiz  *)
(* disabled) creates no AttemptSession and no ProgressRecord and leaves    *)
(* totalAttempts as it was; a start that creates the ProgressRecord of a   *)
(* (student, quiz) pair gives it one entry per quiz topic, each with       *)
(* mastery 0, questionsAnswered 0 and correctAnswers 0.                    *)
C19_StartSideEffects ==
  [][\A user \in Users, quizId \in QuizIdInputs :
       LET key == <<user, quizId>>
           missing == quizId \notin quizStore
           disabled == quizId \in quizStore /\ ~Quiz[quizId].isActive
           enrolled == /\ role(user) = "student"
                       /\ quizId \in quizStore
                       /\ Quiz[quizId].class \in enrolledClasses(user)
       IN /\ (missing /\ role(user) = "student") => StartStatus(user, quizId) = "NotFound"
          /\ (disabled /\ enrolled) => StartStatus(user, quizId) = "Inactive"
          /\ (missing \/ disabled) =>
               /\ \A a \in DOMAIN attempts' :
                    (attempts'[a].student = user /\ attempts'[a].quiz = quizId) =>
                      a \in DOMAIN attempts
               /\ key \notin DOMAIN progress'
               /\ key \notin DOMAIN progress
          /\ (key \in DOMAIN progress' /\ key \notin DOMAIN progress) =>
               /\ StartStatus(user, quizId) = "ok"
               /\ Len(progress'[key].topicMastery) = Len(Quiz[quizId].topics)
               /\ \A i \in DOMAIN progress'[key].topicMastery :
                    progress'[key].topicMastery[i] =
                      [topic |-> Quiz[quizId].topics[i], mastery |-> Zero,
                       questionsAnswered |-> 0, correctAnswers |-> 0]]_vars

(* the first start of the two-topic quiz has created its ProgressRecord *)
C19_Witness ==
  /\ "qzI" \in quizStore
  /\ <<"s1", "qzA">> \in DOMAIN progress
  /\ progress[<<"s1", "qzA">>].totalAttempts = 1
  /\ Len(progress[<<"s1", "qzA">>].topicMastery) = 2
  /\ Len(attempts) = 1
  /\ attempts[1].answers = << >>

C21_RewardAtomicNonFatal ==
  (calc.fn = "updateGameState" /\ calc.in.failAt # "none") =>
    /\ calc.out.gameState = calc.in.gameState
    /\ calc.out.attempt.isCompleted
    /\ calc.out.reply.completed
    /\ calc.out.reply.score = calc.out.attempt.score

(* the badge step throws after xp, statistics and streak were computed for *)
(* a perfect attempt: nothing of them is stored                            *)
C21_Witness ==
  /\ calc.fn = "updateGameState"
  /\ calc.in.failAt = "checkBadges"
  /\ calc.out.attempt.score = <<100, 1>>
  /\ calc.out.gameState.xp = 0
  /\ calc.out.gameState.stats.totalQuizzesCompleted = 0
  /\ calc.out.returned = "null"
  /\ calc.out.reply.score = <<100, 1>>

(* C22: in every reachable state the score stored on an attempt lies in    *)
(* the range 0 to 100 inclusive.                                           *)
C22_ScoreInRange ==
  \A a \in AttemptIds :
    /\ attempts[a].score[2] > 0
    /\ attempts[a].score[1] >= 0
    /\ attempts[a].score[1] <= 100 * attempts[a].score[2]

(* the unanswered questions of the selector's input whose topic is in the  *)
(* stored weakTopics                                                       *)
WeakUnanswered ==
  LET qs == Quiz[calc.in.quiz].questions
  IN {qs[i].questionId : i \in {j \in DOMAIN qs :
        /\ Includes(calc.in.weakTopics, qs[j].topic)
        /\ ~isAnswered(calc.in.attempt, qs[j].questionId)}}

(* C23: question selection is deterministic: for the same quiz, the same   *)
(* answered questions and the same ProgressRecord the selector, at either  *)
(* entry point, has exactly one possible next question.                    *)
C23_SelectionDeterministic ==
  calc.fn \in {"getNextQuestion", "adaptiveNext"} => Cardinality(calc.out) = 1

(* C24: whenever the ProgressRecord lists a weak topic and the session has *)
(* an unanswered question on a listed topic, the next question selected is *)
(* such a question, at either entry point.                                 *)
C24_WeakTopicsFirst ==
  (calc.fn \in {"getNextQuestion", "adaptiveNext"} /\ WeakUnanswered # {}) =>
    calc.out \subseteq WeakUnanswered
(* both requests have replied *)
AllDone == inflight # NoRequests /\ \A p \in DOMAIN inflight : inflight[p].pc = "done"

(* the requests are for two attempts, or for one *)
TwoSessions == AllDone /\ inflight[1].attemptId # inflight[2].attemptId

SameSession == AllDone /\ inflight[1].attemptId = inflight[2].attemptId

(* C25: when two attempts of one student on different quizzes complete     *)
(* concurrently, then in every interleaving of the loads and saves of the  *)
(* two reward updates the GameState ends with both rewards applied.        *)
C25_BothRewardsApplied ==
  TwoSessions =>
    LET gs == gameState[inflight[1].user]
        a1 == attempts[inflight[1].attemptId]
        a2 == attempts[inflight[2].attemptId]
    IN /\ gs.xp = totalXP(a1, a1.quiz) + totalXP(a2, a2.quiz)
       /\ gs.level = calculateLevel(gs.xp).level
       /\ gs.stats.totalQuizzesCompleted = 2
       /\ gs.stats.totalQuestionsAnswered = a1.totalQuestions + a2.totalQuestions
       /\ gs.stats.totalCorrectAnswers = a1.correctAnswers + a2.correctAnswers

(* C26: when two answers for different questions of one session are        *)
(* submitted concurrently, then in every interleaving each answer is       *)
(* recorded once and counted once, the attempt that has all its answers is *)
(* completed, and it is rewarded exactly once.                             *)
C26_ConcurrentAnswers ==
  SameSession =>
    LET a == attempts[inflight[1].attemptId]
        qs == Quiz[a.quiz].questions
    IN /\ \A i \in DOMAIN qs :
            Cardinality({j \in DOMAIN a.answers : a.answers[j].questionId = qs[i].questionId}) = 1
       /\ a.correctAnswers = Cardinality({j \in DOMAIN a.answers : a.answers[j].isCorrect})
       /\ a.isCompleted
       /\ xpGrants[inflight[1].user] = 1
       /\ Cardinality({p \in DOMAIN inflight : inflight[p].reply = "completed"}) = 1
(* the questions of the selector's input that have no answer *)
Unanswered ==
  LET qs == Quiz[calc.in.quiz].questions
  IN {qs[i].questionId : i \in {j \in DOMAIN qs : ~isAnswered(calc.in.attempt, qs[j].questionId)}}

(* C27: the nextQuestion of a reply with completed:false is a question of  *)
(* the quiz that has no answer in the session, never null and never an     *)
(* answered question; the selector yields no question only when no         *)
(* unanswered question remains.                                            *)
C27_NextQuestionUnanswered ==
  calc.fn = "getNextQuestion" =>
    /\ calc.out \subseteq Unanswered
    /\ (NoQuestion \in calc.out => Unanswered = {})
C29_ProgressWithinBand ==
  calc.fn = "calculateLevel" =>
    LET xp == calc.in
        level == calc.out.level
        lower == IF level = 1 THEN 0 ELSE Threshold(level - 1)
        upper == Threshold(level)
    IN /\ calc.out.progress = Pct(xp - lower, upper - lower)
       /\ calc.out.progress[1] >= 0
       /\ calc.out.progress[1] <= 100 * calc.out.progress[2]
       /\ calc.out.xpForCurrentLevel <= xp
       /\ xp < calc.out.xpForNextLevel
(* C30: after any sequence of reward updates stats.fastestQuiz is the      *)
(* smallest timeSpent of the rewarded attempts, null when there is none,   *)
(* for every time including 0; a later slower attempt never replaces a     *)
(* faster recorded time.                                                   *)
C30_FastestIsMinimum ==
  calc.fn = "fastestQuiz" =>
    /\ calc.out[1] = NoNumber
    /\ calc.out[2] = calc.in.first
    /\ calc.out[3] = IF calc.in.second < calc.in.first THEN calc.in.second
                     ELSE calc.in.first
====
